---------------------------- MODULE Spec2Model ----------------------------
(***************************************************************************)
(* State machine of the App component of frontend/src/App.tsx: the         *)
(* dialogue-generation request cycle, per-line speech playback and the     *)
(* podcast player.  Every handler of the component, and every completion   *)
(* of a request or media event it subscribes to, is one action.            *)
(***************************************************************************)
EXTENDS Integers, Sequences, FiniteSets, Bags, TLC

(* ------------------------------ bounds -------------------------------- *)
\* most lines in a dialogue the generation service returns
MaxLines == 2
\* generation requests issued in one run
MaxGen == 2
\* playAudio invocations in progress at once
MaxPlays == 3
\* podcast-assembly requests outstanding at once
MaxAssemble == 2
\* longest podcast track, in seconds
MaxDur == 2
\* largest number of seconds formatTime is applied to
MaxTime == 3661

(* ------------------------------ values -------------------------------- *)
\* currentPlaying is number | null; null is modelled by an index no line has
NULL == -1

\* a JavaScript value that is either undefined or an array
Undefined == [tag |-> "undefined", items |-> <<>>]
Arr(s) == [tag |-> "array", items |-> s]

\* topics typed into the topic input: empty, white space only, and not blank
Topics == {<<>>, <<" ">>, <<" ", "a", " ">>}

\* String.prototype.trim: strip leading and trailing white space
RECURSIVE TrimLeft(_)
TrimLeft(s) == IF s # <<>> /\ Head(s) = " " THEN TrimLeft(Tail(s)) ELSE s
RECURSIVE TrimRight(_)
TrimRight(s) ==
    IF s # <<>> /\ s[Len(s)] = " " THEN TrimRight(SubSeq(s, 1, Len(s) - 1)) ELSE s
\* a check of the topic as typed, `!topic`: nothing is stripped
trimNothing(s) == s
trim(s) == TrimRight(TrimLeft(s))

\* DialogueLine values as the generation service produces them: the examiner
\* opens and the speakers alternate; the text is an opaque token
Speaker(i) == IF i % 2 = 1 THEN "EXAMINER" ELSE "CANDIDATE"
Script(s, n) == [i \in 1..n |-> [speaker |-> Speaker(i), text |-> <<s, i>>]]
Scripts == {"A", "B"}
\* speaker is typed `string`: a body whose line carries some other label
OffRole == <<[speaker |-> "NARRATOR", text |-> <<"N", 1>>]>>
\* the full_dialogue arrays a response can carry
ServerDialogues == {Script(s, n) : s \in Scripts, n \in 0..MaxLines} \cup {OffRole}

VARIABLES
    topic,          \* useState('')            line 17
    dialogue,       \* useState<DialogueLine[]>([])  line 19
    loading,        \* useState(false)         line 20
    currentPlaying, \* useState<number|null>(null)   line 21
    podcastUrl,     \* useState('')            line 24
    podcastLoading, \* useState(false)         line 25
    isPlaying,      \* useState(false)         line 26
    currentTime,    \* useState(0)             line 27
    duration,       \* useState(0)             line 28
    audio,          \* the <audio> element behind audioRef (line 29, 243)
    genReqs,        \* outstanding POST /generate-dialogue calls (ids)
    genSeq,         \* number of generation requests issued so far
    dialogueSrc,    \* id of the request whose response last called setDialogue
    plays,          \* the playAudio invocations in progress
    spoken,         \* the text sent for synthesis by the call that marked the
                    \* active line; <<>> while no line is active
    podReqs,        \* number of outstanding POST /generate-podcast calls
    alerts,         \* the alert() calls made by the step that ran last
    seeks,          \* the slider positions requested in the step that ran last
    events,         \* the media events whose listeners ran in the step that ran last
    time,           \* the argument of a call of formatTime
    text            \* what that call returned; <<>> before it has run

genVars == <<topic, dialogue, loading, genReqs, genSeq, dialogueSrc>>
lineVars == <<currentPlaying, plays, spoken>>
podVars == <<podcastUrl, podcastLoading, isPlaying, currentTime, duration, audio,
             podReqs>>
fmtVars == <<time, text>>
vars == <<genVars, lineVars, podVars, alerts, seeks, events, fmtVars>>

\* The component is rendered as long as render() does not throw:
\* `dialogue.length` (line 200) throws on undefined, and React then unmounts
\* the tree; state setters of an unmounted component are ignored.
Mounted == dialogue.tag = "array"
SetState(old, new) == IF Mounted THEN new ELSE old

\* what the step that runs shows to, and was asked by, the user
Emit(shown) ==
    alerts' = shown /\ seeks' = <<>> /\ events' = <<>> /\ UNCHANGED fmtVars
\* the step that runs is the delivery of media events to their listeners
Deliver(fired) ==
    alerts' = <<>> /\ seeks' = <<>> /\ events' = fired /\ UNCHANGED fmtVars


(* ------------------- generation request coordinator ------------------- *)
\* the generate-btn left enabled while a request is outstanding
GenerateEnabledAlways == TRUE
\* generate-btn: disabled={loading}
GenerateEnabled == ~loading

\* generateDialogue up to the await: the blank-topic check, then the POST
GenerateDialogue ==
    /\ Mounted
    /\ GenerateEnabled
    /\ IF trim(topic) = <<>>
       THEN /\ Emit(<<"Lutfen bir konu girin!">>)
            /\ UNCHANGED <<loading, genReqs, genSeq>>
       ELSE /\ genSeq < MaxGen
            /\ loading' = TRUE
            /\ genSeq' = genSeq + 1
            /\ genReqs' = genReqs \cup {genSeq + 1}
            /\ Emit(<<>>)
    /\ UNCHANGED <<topic, dialogue, dialogueSrc, lineVars, podVars>>

\* the POST resolves with a body that carries full_dialogue
GenerateDialogueOk(r, d) ==
    /\ r \in genReqs
    /\ genReqs' = genReqs \ {r}
    /\ dialogue' = SetState(dialogue, Arr(d))
    /\ dialogueSrc' = SetState(dialogueSrc, r)
    /\ loading' = SetState(loading, FALSE)
    /\ Emit(<<>>)
    /\ UNCHANGED <<topic, genSeq, lineVars, podVars>>

\* the POST resolves with a 2xx body that has no full_dialogue field:
\* response.data.full_dialogue is undefined and nothing throws inside try
GenerateDialogueMalformed(r) ==
    /\ r \in genReqs
    /\ genReqs' = genReqs \ {r}
    /\ dialogue' = SetState(dialogue, Undefined)
    /\ dialogueSrc' = SetState(dialogueSrc, r)
    /\ loading' = SetState(loading, FALSE)
    /\ Emit(<<>>)
    /\ UNCHANGED <<topic, genSeq, lineVars, podVars>>

\* the POST rejects (network error, non-2xx status) or resolves without a
\* body, so that reading response.data.full_dialogue throws: the catch block
GenerateDialogueFail(r) ==
    /\ r \in genReqs
    /\ genReqs' = genReqs \ {r}
    /\ loading' = SetState(loading, FALSE)
    /\ Emit(<<"Diyalog olusturulurken bir hata olustu!">>)
    /\ UNCHANGED <<topic, dialogue, dialogueSrc, genSeq, lineVars, podVars>>

\* onChange of the topic input
SetTopic(t) ==
    /\ Mounted
    /\ t # topic
    /\ topic' = t
    /\ Emit(<<>>)
    /\ UNCHANGED <<dialogue, loading, genReqs, genSeq, dialogueSrc, lineVars, podVars>>

(* ---------------------- line playback controller ---------------------- *)
\* A playAudio invocation in progress: the index it was called with and where
\* it stands: "synth" (POST /text-to-speech outstanding), "starting" (the
\* Audio object exists, await audio.play() pending), "playing" (play()
\* resolved).  `plays` is the bag of the invocations in progress: the
\* callbacks of two invocations for the same index do the same thing.
Inv(index, stage) == [index |-> index, stage |-> stage]
One(index, stage) == SetToBag({Inv(index, stage)})
InProgress(index, stage) == BagIn(Inv(index, stage), plays)
Finish(index, stage) == plays (-) One(index, stage)
Advance(index, from, to) == (plays (-) One(index, from)) (+) One(index, to)

\* the play-btn of line index: rendered for each line, disabled while active
PlayRendered(index) == Mounted /\ index \in 0..(Len(dialogue.items) - 1)
\* the play-btn left enabled while its line is active
PlayEnabledAlways(index) == TRUE
PlayEnabled(index) == currentPlaying # index

\* a marker that is set only once the audio is there: the trigger leaves it
MarkedLater(active, index) == active
\* setCurrentPlaying(index), the first statement of playAudio
Marked(active, index) == index

\* playAudio up to the await of the POST
PlayAudio(index) ==
    /\ PlayRendered(index)
    /\ PlayEnabled(index)
    /\ BagCardinality(plays) < MaxPlays
    /\ currentPlaying' = Marked(currentPlaying, index)
    /\ spoken' = dialogue.items[index + 1].text
    /\ plays' = plays (+) One(index, "synth")
    /\ Emit(<<>>)
    /\ UNCHANGED <<genVars, podVars>>

\* the POST rejects, or resolves without a body: the catch block
TtsFail(index) ==
    /\ InProgress(index, "synth")
    /\ plays' = Finish(index, "synth")
    /\ currentPlaying' = SetState(currentPlaying, NULL)
    /\ Emit(<<"Ses olusturulurken hata olustu.">>)
    /\ spoken' = SetState(spoken, <<>>)
    /\ UNCHANGED <<genVars, podVars>>

\* the POST resolves with a body whose audio_url is missing or empty:
\* the if at line 133 is skipped and the function returns
TtsNoAudioUrl(index) ==
    /\ InProgress(index, "synth")
    /\ plays' = Finish(index, "synth")
    /\ Emit(<<>>)
    /\ UNCHANGED <<currentPlaying, spoken, genVars, podVars>>

\* the POST resolves with an audio_url: new Audio, the two callbacks, play()
TtsOk(index) ==
    /\ InProgress(index, "synth")
    /\ plays' = Advance(index, "synth", "starting")
    /\ Emit(<<>>)
    /\ UNCHANGED <<currentPlaying, spoken, genVars, podVars>>

\* audio.play() resolves: playback has begun
PlayResolved(index) ==
    /\ InProgress(index, "starting")
    /\ plays' = Advance(index, "starting", "playing")
    /\ Emit(<<>>)
    /\ UNCHANGED <<currentPlaying, spoken, genVars, podVars>>

\* audio.play() rejects (playback not allowed, or the resource cannot be
\* loaded, where onerror runs in the same task): the catch block
PlayRejected(index) ==
    /\ InProgress(index, "starting")
    /\ plays' = Finish(index, "starting")
    /\ currentPlaying' = SetState(currentPlaying, NULL)
    /\ Emit(<<"Ses olusturulurken hata olustu.">>)
    /\ spoken' = SetState(spoken, <<>>)
    /\ UNCHANGED <<genVars, podVars>>

\* audio.onended
AudioEnded(index) ==
    /\ InProgress(index, "playing")
    /\ plays' = Finish(index, "playing")
    /\ currentPlaying' = SetState(currentPlaying, NULL)
    /\ Emit(<<>>)
    /\ spoken' = SetState(spoken, <<>>)
    /\ UNCHANGED <<genVars, podVars>>

\* audio.onerror during playback
AudioError(index) ==
    /\ InProgress(index, "playing")
    /\ plays' = Finish(index, "playing")
    /\ currentPlaying' = SetState(currentPlaying, NULL)
    /\ Emit(<<>>)
    /\ spoken' = SetState(spoken, <<>>)
    /\ UNCHANGED <<genVars, podVars>>

(* -------------------------- podcast controller ------------------------ *)
ApiBase == "http://localhost:8000"
PodcastPaths == {"/audio/p1", "/audio/p2"}
\* `http://localhost:8000${response.data.podcast_url}`; '' is the empty sequence
Url(path) == <<ApiBase, path>>
\* the length in whole seconds of the track a URL addresses
TrackDuration(url) == IF url[2] = "/audio/p1" THEN MaxDur ELSE MaxDur - 1

Min(a, b) == IF a < b THEN a ELSE b

\* The <audio> element: loaded (metadata known), cur (its currentTime: the
\* playback position, or the default start position before metadata),
\* paused, error, and tu (a timeupdate event is queued).  It is in the
\* document exactly when podcastUrl is truthy (line 238).
FreshAudio == [loaded |-> FALSE, cur |-> 0, paused |-> TRUE, error |-> FALSE, tu |-> FALSE]
AudioRendered == Mounted /\ podcastUrl # <<>>

\* what the element does when its src attribute changes: the media element
\* load algorithm pauses it, drops its queued events, forgets the metadata and
\* resets the position to 0, queueing a timeupdate if that moved it
Reload(a) == [FreshAudio EXCEPT !.tu = (a.cur # 0)]

\* podcast-btn: inside the dialogue section (dialogue.length > 0),
\* disabled={podcastLoading}
PodcastRendered == Mounted /\ Len(dialogue.items) > 0
\* the podcast-btn left enabled while an assembly is outstanding
PodcastEnabledAlways == TRUE
PodcastEnabled == ~podcastLoading

\* a generatePodcast without its guard: no dialogue counts as empty
IsEmptyDialogueNever(d) == FALSE
\* dialogue.length === 0
IsEmptyDialogue(d) == Len(d.items) = 0

\* generatePodcast up to the await: the empty-dialogue check, then the POST
GeneratePodcastCalled ==
    /\ IF IsEmptyDialogue(dialogue)
       THEN /\ Emit(<<"Once bir diyalog olusturun!">>)
            /\ UNCHANGED <<podcastLoading, podReqs>>
       ELSE /\ podReqs < MaxAssemble
            /\ podcastLoading' = TRUE
            /\ podReqs' = podReqs + 1
            /\ Emit(<<>>)
    /\ UNCHANGED <<podcastUrl, isPlaying, currentTime, duration, audio,
                   genVars, lineVars>>

\* a click on the podcast-btn
GeneratePodcast ==
    /\ PodcastRendered
    /\ PodcastEnabled
    /\ GeneratePodcastCalled

\* generatePodcast invoked as a function by a caller that honours the busy
\* flag but does not depend on the dialogue section being rendered
CallGeneratePodcast ==
    /\ Mounted
    /\ PodcastEnabled
    /\ GeneratePodcastCalled

\* the POST resolves: setPodcastUrl, the success alert, finally; then the
\* re-render hands the new src to the element
GeneratePodcastOk(path) ==
    /\ podReqs > 0
    /\ podReqs' = podReqs - 1
    /\ podcastUrl' = SetState(podcastUrl, Url(path))
    /\ podcastLoading' = SetState(podcastLoading, FALSE)
    /\ audio' = IF ~Mounted \/ Url(path) = podcastUrl THEN audio
                ELSE IF podcastUrl = <<>> THEN FreshAudio
                ELSE Reload(audio)
    /\ Emit(<<"Podcast basariyla olusturuldu!">>)
    /\ UNCHANGED <<isPlaying, currentTime, duration, genVars, lineVars>>

\* a catch block that also resets the line playback marker
GeneratePodcastFailClearsLine ==
    /\ podReqs > 0
    /\ podReqs' = podReqs - 1
    /\ podcastLoading' = SetState(podcastLoading, FALSE)
    /\ currentPlaying' = SetState(currentPlaying, NULL)
    /\ Emit(<<"Podcast olusturulurken bir hata olustu!">>)
    /\ UNCHANGED <<podcastUrl, isPlaying, currentTime, duration, audio,
                   genVars, plays>>
    /\ spoken' = SetState(spoken, <<>>)
\* the POST rejects, or resolves without a body: the catch block
GeneratePodcastFail ==
    /\ podReqs > 0
    /\ podReqs' = podReqs - 1
    /\ podcastLoading' = SetState(podcastLoading, FALSE)
    /\ Emit(<<"Podcast olusturulurken bir hata olustu!">>)
    /\ UNCHANGED <<podcastUrl, isPlaying, currentTime, duration, audio,
                   genVars, lineVars>>

\* what audio.play() does to the element: nothing when the source failed to
\* load; otherwise it unpauses, rewinding first when playback had ended
ElPlay(a) ==
    IF a.error /\ ~a.loaded THEN a
    ELSE IF a.loaded /\ a.cur = TrackDuration(podcastUrl)
         THEN [a EXCEPT !.paused = FALSE, !.cur = 0, !.tu = TRUE]
         ELSE [a EXCEPT !.paused = FALSE]
ElPause(a) == [a EXCEPT !.paused = TRUE]

\* a flag that waits for play() to settle: the call leaves it as it is
ToggledLater(playing) == playing
\* setIsPlaying(!isPlaying)
Toggled(playing) == ~playing

\* togglePlayPause: audioRef.current is null unless the element is rendered
TogglePlayPauseCalled ==
    /\ IF ~AudioRendered
       THEN UNCHANGED <<audio, isPlaying>>
       ELSE /\ audio' = IF isPlaying THEN ElPause(audio) ELSE ElPlay(audio)
            /\ isPlaying' = Toggled(isPlaying)
    /\ Emit(<<>>)
    /\ UNCHANGED <<podcastUrl, podcastLoading, currentTime, duration, podReqs,
                   genVars, lineVars>>

\* a click on the play-pause-btn, which exists only next to the element
TogglePlayPause ==
    /\ AudioRendered
    /\ TogglePlayPauseCalled

\* togglePlayPause invoked as a function, whether or not the player is rendered
CallTogglePlayPause ==
    /\ Mounted
    /\ TogglePlayPauseCalled

\* a slider without min and max: the requested position as it is
RangeValueUnbounded(x, min, max) == x
\* the value an <input type="range" min max> reports for a requested
\* position x (HTML value sanitization, step 1)
RangeValue(x, min, max) == IF max < min \/ x < min THEN min ELSE IF x > max THEN max ELSE x
\* max={duration || 0}
SliderMax == duration

\* what assigning audio.currentTime does: a seek, clamped to the track, once
\* metadata is known; before that it sets the default start position
ElSeek(a, t) ==
    IF a.loaded THEN [a EXCEPT !.cur = Min(t, TrackDuration(podcastUrl)), !.tu = TRUE]
    ELSE [a EXCEPT !.cur = t]

\* handleSeek, run by the slider when the position x is requested on it
HandleSeek(x) ==
    LET newTime == RangeValue(x, 0, SliderMax) IN
    /\ AudioRendered
    /\ newTime # RangeValue(currentTime, 0, SliderMax)
    /\ audio' = ElSeek(audio, newTime)
    /\ currentTime' = newTime
    /\ seeks' = <<x>>
    /\ alerts' = <<>> /\ events' = <<>> /\ UNCHANGED fmtVars
    /\ UNCHANGED <<podcastUrl, podcastLoading, isPlaying, duration, podReqs,
                   genVars, lineVars>>

\* 'loadedmetadata': updateDuration; the element then seeks to the default
\* start position if one was set.  Events are delivered in the order they
\* were queued, so a queued timeupdate comes first.
LoadedMetadata ==
    /\ AudioRendered
    /\ ~audio.loaded /\ ~audio.error
    /\ ~audio.tu
    /\ duration' = TrackDuration(podcastUrl)
    /\ audio' = [audio EXCEPT !.loaded = TRUE,
                              !.cur = Min(audio.cur, TrackDuration(podcastUrl)),
                              !.tu = (audio.tu \/ audio.cur > 0)]
    /\ Deliver(<<"loadedmetadata">>)
    /\ UNCHANGED <<podcastUrl, podcastLoading, isPlaying, currentTime, podReqs,
                   genVars, lineVars>>

\* playback advances by a second
Tick ==
    /\ AudioRendered
    /\ audio.loaded /\ ~audio.paused /\ ~audio.error
    /\ audio.cur < TrackDuration(podcastUrl)
    /\ audio' = [audio EXCEPT !.cur = audio.cur + 1, !.tu = TRUE]
    /\ Emit(<<>>)
    /\ UNCHANGED <<podcastUrl, podcastLoading, isPlaying, currentTime, duration, podReqs,
                   genVars, lineVars>>

\* 'timeupdate': updateTime
TimeUpdate ==
    /\ AudioRendered
    /\ audio.tu
    /\ currentTime' = audio.cur
    /\ audio' = [audio EXCEPT !.tu = FALSE]
    /\ Deliver(<<"timeupdate">>)
    /\ UNCHANGED <<podcastUrl, podcastLoading, isPlaying, duration, podReqs,
                   genVars, lineVars>>

\* an effect that registers no 'ended' listener: isPlaying keeps its value
handleEndedMissing(playing) == playing
\* handleEnded = () => setIsPlaying(false): the value isPlaying gets
handleEnded(playing) == FALSE

\* playback reaches the end of the track: one task fires 'timeupdate',
\* pauses the element and fires 'ended' (updateTime, then handleEnded)
EndOfTrack ==
    /\ AudioRendered
    /\ audio.loaded /\ ~audio.paused /\ ~audio.error
    /\ audio.cur = TrackDuration(podcastUrl)
    /\ currentTime' = audio.cur
    /\ isPlaying' = handleEnded(isPlaying)
    /\ audio' = [audio EXCEPT !.paused = TRUE, !.tu = FALSE]
    /\ Deliver(<<"timeupdate", "ended">>)
    /\ UNCHANGED <<podcastUrl, podcastLoading, duration, podReqs,
                   genVars, lineVars>>

\* the element reports an error; the effect registers no 'error' listener
MediaError ==
    /\ AudioRendered
    /\ ~audio.error
    /\ audio' = [audio EXCEPT !.error = TRUE]
    /\ Emit(<<>>)
    /\ UNCHANGED <<podcastUrl, podcastLoading, isPlaying, currentTime, duration, podReqs,
                   genVars, lineVars>>

(* ------------------------------ formatTime ---------------------------- *)
\* strings are sequences of characters
Digits == <<"0", "1", "2", "3", "4", "5", "6", "7", "8", "9">>
\* Number.prototype.toString of a non-negative integer
RECURSIVE toString(_)
toString(n) ==
    IF n < 10 THEN <<Digits[n + 1]>> ELSE toString(n \div 10) \o <<Digits[(n % 10) + 1]>>
\* seconds printed as they are, without padding
padStartNothing(s, len, ch) == s
\* String.prototype.padStart with a one-character fill
RECURSIVE padStart(_, _, _)
padStart(s, len, ch) == IF Len(s) >= len THEN s ELSE padStart(<<ch>> \o s, len, ch)

\* formatTime of a non-negative whole number of seconds
formatTime(t) ==
    LET minutes == t \div 60
        seconds == t % 60
    IN  toString(minutes) \o <<":">> \o padStart(toString(seconds), 2, "0")

\* a call of formatTime on `time`
FormatTime ==
    /\ text = <<>>
    /\ text' = formatTime(time)
    /\ UNCHANGED <<time, genVars, lineVars, podVars, alerts, seeks, events>>

(* --------------------------- the state machine ------------------------ *)
\* positions that can be requested on the slider
SeekRequests == (0 - 1)..(MaxDur + 1)

\* the component after its first render
InitApp ==
    /\ topic = <<>>
    /\ dialogue = Arr(<<>>)
    /\ loading = FALSE
    /\ currentPlaying = NULL
    /\ podcastUrl = <<>>
    /\ podcastLoading = FALSE
    /\ isPlaying = FALSE
    /\ currentTime = 0
    /\ duration = 0
    /\ audio = FreshAudio
    /\ genReqs = {}
    /\ genSeq = 0
    /\ dialogueSrc = 0
    /\ plays = EmptyBag
    /\ spoken = <<>>
    /\ podReqs = 0
    /\ seeks = <<>>
    /\ alerts = <<>>
    /\ events = <<>>

Init ==
    /\ InitApp
    /\ time = 0
    /\ text = <<>>

\* formatTime about to be called on any number of seconds up to MaxTime
InitFormat ==
    /\ InitApp
    /\ time \in 0..MaxTime
    /\ text = <<>>

\* the steps of the generation request coordinator
NextGen ==
    \/ \E t \in Topics : SetTopic(t)
    \/ GenerateDialogue
    \/ \E r \in 1..MaxGen, d \in ServerDialogues : GenerateDialogueOk(r, d)
    \/ \E r \in 1..MaxGen : GenerateDialogueMalformed(r)
    \/ \E r \in 1..MaxGen : GenerateDialogueFail(r)

\* the steps of the line playback controller
NextLine ==
    \/ \E i \in 0..(MaxLines - 1) : PlayAudio(i)
    \/ \E i \in 0..(MaxLines - 1) : TtsFail(i)
    \/ \E i \in 0..(MaxLines - 1) : TtsNoAudioUrl(i)
    \/ \E i \in 0..(MaxLines - 1) : TtsOk(i)
    \/ \E i \in 0..(MaxLines - 1) : PlayResolved(i)
    \/ \E i \in 0..(MaxLines - 1) : PlayRejected(i)
    \/ \E i \in 0..(MaxLines - 1) : AudioEnded(i)
    \/ \E i \in 0..(MaxLines - 1) : AudioError(i)

\* the steps of the podcast controller and of its media element
NextPod ==
    \/ GeneratePodcast
    \/ \E p \in PodcastPaths : GeneratePodcastOk(p)
    \/ GeneratePodcastFail
    \/ TogglePlayPause
    \/ \E x \in SeekRequests : HandleSeek(x)
    \/ LoadedMetadata
    \/ Tick
    \/ TimeUpdate
    \/ EndOfTrack
    \/ MediaError

Next == NextGen \/ NextLine \/ NextPod

\* The whole component.
Spec == Init /\ [][Next]_vars

\* The three controllers share only `dialogue`, which the coordinator alone
\* writes: each is also explored on its own, with the coordinator that feeds
\* it, to the depth its properties need.
SpecGen == Init /\ [][NextGen]_vars
SpecLine == Init /\ [][NextGen \/ NextLine]_vars
SpecPod == Init /\ [][NextGen \/ NextPod]_vars

\* The handlers of the podcast controller as functions: besides the steps of
\* the rendered component, a handler may be invoked while the control it is
\* bound to is not rendered, which is where its own guard decides.
NextCalls ==
    \/ CallGeneratePodcast
    \/ CallTogglePlayPause
SpecCalls == Init /\ [][NextGen \/ NextPod \/ NextCalls]_vars

\* a click on a play-btn while no other playAudio invocation is in progress
PlayAudioAlone(index) ==
    /\ plays = EmptyBag
    /\ PlayAudio(index)

\* The three controllers side by side: one topic, full-length dialogues, one
\* playAudio invocation at a time and the player without its slider, which
\* is what keeps the product of the three small enough to explore.
NextCross ==
    \/ SetTopic(<<" ", "a", " ">>)
    \/ GenerateDialogue
    \/ \E r \in 1..MaxGen, s \in Scripts : GenerateDialogueOk(r, Script(s, MaxLines))
    \/ \E r \in 1..MaxGen : GenerateDialogueMalformed(r)
    \/ \E r \in 1..MaxGen : GenerateDialogueFail(r)
    \/ \E i \in 0..(MaxLines - 1) : PlayAudioAlone(i)
    \/ \E i \in 0..(MaxLines - 1) : TtsFail(i)
    \/ \E i \in 0..(MaxLines - 1) : TtsNoAudioUrl(i)
    \/ \E i \in 0..(MaxLines - 1) : TtsOk(i)
    \/ \E i \in 0..(MaxLines - 1) : PlayResolved(i)
    \/ \E i \in 0..(MaxLines - 1) : PlayRejected(i)
    \/ \E i \in 0..(MaxLines - 1) : AudioEnded(i)
    \/ \E i \in 0..(MaxLines - 1) : AudioError(i)
    \/ GeneratePodcast
    \/ \E p \in PodcastPaths : GeneratePodcastOk(p)
    \/ GeneratePodcastFail
    \/ TogglePlayPause
    \/ LoadedMetadata
    \/ Tick
    \/ TimeUpdate
    \/ EndOfTrack
SpecCross == Init /\ [][NextCross]_vars

\* formatTime on its own, applied to each number of seconds
SpecFormat == InitFormat /\ [][FormatTime]_vars

(* ------------------------------ properties ---------------------------- *)
Indices == 0..(MaxLines - 1)

\* C1: once line B is the active line, no completion of an invocation for a
\* different line A (its synthesis failing, its audio ending or erring, its
\* play() rejecting) changes the active line index.
C1_StaleCompletionIgnored ==
    [][\A a \in Indices :
          ((TtsFail(a) \/ PlayRejected(a) \/ AudioEnded(a) \/ AudioError(a))
             /\ Mounted /\ currentPlaying # NULL /\ currentPlaying # a)
          => currentPlaying' = currentPlaying]_vars

\* C2: the Dialogue is only ever written by the response to the most
\* recently issued generation request: whenever a response writes it, no
\* newer request has been issued.
C2_OnlyLatestResponseCommits ==
    [][dialogueSrc' # dialogueSrc => (dialogueSrc' = genSeq /\ genReqs' = {})]_vars
\* a second generation was issued after the first one's Dialogue was
\* committed, and its response has replaced that Dialogue
C2_Witness ==
    /\ dialogueSrc = 2
    /\ genSeq = 2
    /\ Mounted /\ Len(dialogue.items) > 0

\* C3 (as claimed): there are never two unresolved synthesis requests for
\* the same line index.
C3_NoOverlappingSynthesis ==
    \A i \in Indices : CopiesIn(Inv(i, "synth"), plays) <= 1
\* C3 (amended): a synthesis request for line i is only ever issued from a
\* state in which i is not the active line, so triggering i again while it is
\* active issues nothing.
C3_NoRequestWhileActive ==
    [][\A i \in Indices :
          CopiesIn(Inv(i, "synth"), plays') > CopiesIn(Inv(i, "synth"), plays)
          => (currentPlaying # i /\ currentPlaying' = i)]_vars
\* line i is active with its synthesis request outstanding: its play control
\* is the one a second trigger would have to come from
C3_Witness ==
    \E i \in Indices :
        /\ currentPlaying = i
        /\ CopiesIn(Inv(i, "synth"), plays) = 1
        /\ PlayRendered(i)

\* C4: every successful podcast assembly that delivers a new track leaves the
\* session in Ready/Paused with that track bound: isPlaying = false,
\* currentTime = 0 and duration unknown (0) right after the success is
\* handled.
C4_AssemblyResetsSession ==
    [][\A p \in PodcastPaths :
          (GeneratePodcastOk(p) /\ Mounted /\ Url(p) # podcastUrl)
          => /\ podcastUrl' = Url(p)
             /\ isPlaying' = FALSE
             /\ currentTime' = 0
             /\ duration' = 0]_vars

\* C5: after a failed podcast assembly no track is bound.
C5_FailureUnbindsTrack ==
    [][(GeneratePodcastFail /\ Mounted) => podcastUrl' = <<>>]_vars

\* C6: every failed generation request (network error, non-2xx status, or a
\* 2xx body without full_dialogue) leaves the Dialogue as it was, clears
\* loading, shows exactly one notification and issues no further request.
C6_FailureLeavesDialogue ==
    [][\A r \in 1..MaxGen :
          ((GenerateDialogueFail(r) \/ GenerateDialogueMalformed(r)) /\ Mounted)
          => /\ dialogue' = dialogue
             /\ loading' = FALSE
             /\ Len(alerts') = 1
             /\ genSeq' = genSeq /\ genReqs' = {}]_vars

C8_PositionWithinDuration ==
    duration # 0 => (0 <= currentTime /\ currentTime <= duration)

\* C9: when the podcast's media element reports an error while isPlaying,
\* isPlaying becomes false and a notification is shown; the track stays
\* bound.
C9_MediaErrorStopsPlayback ==
    [][(MediaError /\ isPlaying)
          => (isPlaying' = FALSE /\ alerts' # <<>> /\ podcastUrl' = podcastUrl)]_vars

\* C10: once every invocation of playAudio has run to its end (its synthesis
\* request completed and any audio it started has ended or erred), no line
\* is active any more.
C10_ActiveLineCleared ==
    (Mounted /\ plays = EmptyBag) => currentPlaying = NULL

\* C11: when the podcast track ends naturally while isPlaying, isPlaying
\* becomes false, currentTime is left at the end of the track (it is not
\* rewound to 0) and the bound track stays bound.
C11_EndOfTrackPauses ==
    [][(EndOfTrack /\ isPlaying)
          => /\ isPlaying' = FALSE
             /\ currentTime' = TrackDuration(podcastUrl)
             /\ currentTime' # 0
             /\ podcastUrl' = podcastUrl]_vars
\* the track was played to its end: playback is paused at the terminal
\* position, which is what the store and the element both hold
C11_Witness ==
    /\ AudioRendered
    /\ events = <<"timeupdate", "ended">>
    /\ ~isPlaying /\ audio.paused /\ audio.loaded /\ ~audio.tu
    /\ audio.cur = TrackDuration(podcastUrl)
    /\ currentTime = audio.cur /\ duration = audio.cur

\* C12: for every topic that is empty or consists only of white space,
\* generateDialogue issues no request, shows the validation message and
\* leaves loading and the Dialogue as they were.
C12_BlankTopicRejected ==
    [][(GenerateDialogue /\ (\A i \in 1..Len(topic) : topic[i] = " "))
          => /\ genReqs' = genReqs /\ genSeq' = genSeq
             /\ alerts' = <<"Lutfen bir konu girin!">>
             /\ loading' = loading
             /\ dialogue' = dialogue]_vars
\* generation was triggered on a topic of white space only and was rejected
C12_Witness ==
    /\ topic = <<" ">>
    /\ alerts = <<"Lutfen bir konu girin!">>
    /\ genReqs = {} /\ ~loading

\* C13: when the Dialogue is empty, generatePodcast issues no request, shows
\* the validation message and leaves podcastLoading and the podcast session
\* as they were.
C13_EmptyDialogueRejected ==
    [][(CallGeneratePodcast /\ Len(dialogue.items) = 0)
          => /\ podReqs' = podReqs
             /\ alerts' = <<"Once bir diyalog olusturun!">>
             /\ podcastLoading' = podcastLoading
             /\ UNCHANGED <<podcastUrl, isPlaying, currentTime, duration, audio>>]_vars
\* generatePodcast has run on an empty Dialogue and was rejected
C13_Witness ==
    /\ Mounted /\ Len(dialogue.items) = 0
    /\ alerts = <<"Once bir diyalog olusturun!">>
    /\ podReqs = 0 /\ ~podcastLoading

\* C14: after every successful generation response carrying N lines the
\* stored Dialogue has exactly those N entries in the response's order,
\* nothing of the previous Dialogue is kept, and every stored entry's
\* speaker is EXAMINER or CANDIDATE.
C14_DialogueReplacedWholesale ==
    [][\A r \in 1..MaxGen, d \in ServerDialogues :
          (GenerateDialogueOk(r, d) /\ Mounted)
          => /\ dialogue'.tag = "array"
             /\ Len(dialogue'.items) = Len(d)
             /\ \A i \in 1..Len(d) : dialogue'.items[i] = d[i]
             /\ \A i \in 1..Len(dialogue'.items) :
                    dialogue'.items[i].speaker \in {"EXAMINER", "CANDIDATE"}]_vars

\* the number a string of decimal digits denotes
RECURSIVE Value(_)
Value(s) ==
    IF s = <<>> THEN 0
    ELSE 10 * Value(SubSeq(s, 1, Len(s) - 1))
         + (CHOOSE d \in 0..9 : Digits[d + 1] = s[Len(s)])
IsDigit(c) == \E d \in 1..10 : Digits[d] = c

\* C15: for every non-negative whole number of seconds t, formatTime(t) is
\* the decimal of floor(t / 60), a colon, and t mod 60 padded with zeros to
\* exactly two digits; there is no hour component: formatTime(65) = "1:05",
\* formatTime(5) = "0:05", formatTime(3661) = "61:01".
C15_FormatTime ==
    text # <<>> =>
        LET n == Len(text) IN
        /\ n >= 4
        /\ text[n - 2] = ":"
        /\ \A i \in 1..n : i # n - 2 => IsDigit(text[i])
        /\ Value(SubSeq(text, n - 1, n)) = time % 60
        /\ Value(SubSeq(text, 1, n - 3)) = time \div 60
        /\ (n > 4 => text[1] # "0")
        /\ (time = 65 => text = <<"1", ":", "0", "5">>)
        /\ (time = 5 => text = <<"0", ":", "0", "5">>)
        /\ (time = 3661 => text = <<"6", "1", ":", "0", "1">>)
\* formatTime has run on more than an hour of seconds that end below ten
C15_Witness ==
    /\ time = 3661
    /\ text = <<"6", "1", ":", "0", "1">>

\* C16: togglePlayPause changes nothing while no track is bound (isPlaying
\* and every other podcast field stay, the media element is not touched);
\* while a track is bound every call flips isPlaying in the same step,
\* whatever becomes of the element's play().
C16_ToggleFlips ==
    [][CallTogglePlayPause
          => IF podcastUrl = <<>>
             THEN UNCHANGED podVars
             ELSE /\ isPlaying' = ~isPlaying
                  /\ UNCHANGED <<podcastUrl, podcastLoading, currentTime, duration>>]_vars
\* a track is bound and isPlaying is already true although the element has
\* no metadata yet, so its play() cannot have resolved
C16_Witness ==
    /\ AudioRendered
    /\ isPlaying /\ ~audio.paused
    /\ ~audio.loaded /\ duration = 0

\* C17: triggering play for a line makes its index the active line in the
\* step of the trigger, while the synthesis request it issues is still
\* unresolved; this also holds when another line was active, and the marker
\* always names at most one line.
C17_MarkedOnTrigger ==
    [][\A i \in Indices :
          PlayAudio(i)
          => /\ currentPlaying' = i
             /\ CopiesIn(Inv(i, "synth"), plays')
                  = CopiesIn(Inv(i, "synth"), plays) + 1
             /\ \A j \in Indices \ {i} : currentPlaying' # j]_vars
\* line 1 was triggered while line 0 was active: both synthesis requests are
\* unresolved and line 1 is the active line
C17_Witness ==
    /\ currentPlaying = 1
    /\ plays = One(0, "synth") (+) One(1, "synth")

C19_BusyFlagsExact ==
    Mounted =>
        /\ loading <=> genReqs # {}
        /\ Cardinality(genReqs) <= 1
        /\ podcastLoading <=> podReqs > 0
        /\ podReqs <= 1
\* an assembly has just failed and its flag is false again, while a
\* generation request is outstanding and its flag is true
C19_Witness ==
    /\ Mounted
    /\ alerts = <<"Podcast olusturulurken bir hata olustu!">>
    /\ ~podcastLoading /\ podReqs = 0
    /\ loading /\ genReqs # {}

\* C20: whenever a line is active, its index is an index of the stored
\* Dialogue and the line at that index is the one whose text was sent for
\* synthesis, also when the Dialogue was regenerated in the meantime.
C20_ActiveLineInDialogue ==
    (Mounted /\ currentPlaying # NULL) =>
        /\ currentPlaying \in 0..(Len(dialogue.items) - 1)
        /\ dialogue.items[currentPlaying + 1].text = spoken

====
